---- MODULE Spec2Model ----
(***************************************************************************)
(* Model of libtiutils/Semaphore.cpp: the android::Semaphore wrapper over  *)
(* the POSIX counting semaphore (sem_init, sem_wait, sem_post,             *)
(* sem_getvalue, sem_timedwait, sem_destroy) and malloc/free.              *)
(*                                                                         *)
(* Every wrapper method is two steps: the entry step (argument and NULL    *)
(* checks, for Create also the malloc and the store to mSemaphore) and the *)
(* native call whose result is translated and returned.  The wrapper adds  *)
(* no lock, so steps of different threads interleave freely.               *)
(***************************************************************************)
EXTENDS Integers, FiniteSets, Sequences, TLC

\* ---------------------------------------------------------------- bounds
NumThreads == 2      \* threads of the free-running specification
MaxCalls == 4        \* method calls entered in one behaviour
MaxBlocks == 2       \* sem_t blocks malloc can hand out in one behaviour
MaxTicks == 2        \* clock advances in one behaviour
MaxK == 2            \* waiter threads of the K/M scenario

\* ------------------------------------------------------ program constants
NULL == 0
NO_ERROR == 0
BAD_VALUE == -22
NO_MEMORY == -12
Million == 1000000
Thousand == 1000

\* platform constants of the native primitive (bionic)
SEM_VALUE_MAX == 1073741823
EINTR == 4
EINVAL == 22
ETIMEDOUT == 110
NsecPerSec == 1000000000

\* the range of int (timeoutMicroSecs, count) and of the 32-bit time_t and long
INT_MAX == 2147483647
INT_MIN == (-INT_MAX) - 1

\* results of the error-translation collaborator (ErrorUtils.h, utils/Errors.h)
TIMED_OUT == -110
INTERRUPTED == -4
UNKNOWN_ERROR == (-2147483647) - 1

Workers == 1 .. NumThreads
Waiters == 1 .. MaxK
Threads == 0 .. (IF NumThreads > MaxK THEN NumThreads ELSE MaxK)
\* the thread that constructs the object
Main == CHOOSE t \in Threads : \A u \in Threads : t <= u
Blocks == 1 .. MaxBlocks

\* inputs the callers draw from
CreateCounts == {-1, 0, 1, SEM_VALUE_MAX, SEM_VALUE_MAX + 1}
Timeouts == {1500000, 2500000}
TickSteps == {1000000}
ClockStarts == {0, 1300000000}
Garbage == {0, 1}

VARIABLES
    mSemaphore,   \* the object's only field: NULL or the address of a block
    heap,         \* every block: its allocation state and the sem_t in it
    pc,           \* where each thread is
    loc,          \* the locals of the call each thread is in
    ret,          \* what each thread's last call returned
    op,           \* the method each thread entered last
    clock,        \* CLOCK_REALTIME as a timespec
    calls,        \* method calls entered so far: all of them (n), the Signals (sig)
                  \* and, in the sequential specification, their names in order (seq)
    ticks,        \* clock advances so far
    alive,        \* the object is constructed and not yet destructed
    recent,       \* what the calls so far amount to, for the sequential claims
    scn           \* the scenario a behaviour runs (fixed by Init)

vars == <<mSemaphore, heap, pc, loc, ret, op, clock, calls, ticks, alive, recent, scn>>

\* ------------------------------------------------------------- timespec
\* C integer division (b > 0) truncates toward zero.
CDiv(a, b) == IF a >= 0 \/ a % b = 0 THEN a \div b ELSE (a \div b) + 1

\* timeSpec.tv_sec = (timeoutMicroSecs/1000000);
tv_secOf(timeoutMicroSecs) == CDiv(timeoutMicroSecs, Million)

\* tv_nsec left in microseconds (the factor 1000 forgotten).
tv_nsecOf_micro(timeoutMicroSecs) ==
    timeoutMicroSecs - tv_secOf(timeoutMicroSecs) * Million

\* timeSpec.tv_nsec = (timeoutMicroSecs - timeSpec.tv_sec*1000000)*1000;
tv_nsecOf(timeoutMicroSecs) ==
    (timeoutMicroSecs - tv_secOf(timeoutMicroSecs) * Million) * Thousand

\* the timespec WaitTimeout hands to sem_timedwait
timeSpecOf(timeoutMicroSecs) ==
    [tv_sec |-> tv_secOf(timeoutMicroSecs), tv_nsec |-> tv_nsecOf(timeoutMicroSecs)]

\* a timespec advanced by a count of microseconds (the clock, and "entry + t")
TsAddMicros(ts, us) ==
    LET n == ts.tv_nsec + (us % Million) * Thousand
    IN  [tv_sec |-> ts.tv_sec + (us \div Million) + (n \div NsecPerSec),
         tv_nsec |-> n % NsecPerSec]

\* a <= b on timespecs
TsLE(a, b) == a.tv_sec < b.tv_sec \/ (a.tv_sec = b.tv_sec /\ a.tv_nsec <= b.tv_nsec)

\* --------------------------------------------------- error translation
\* ErrorUtils::posixToAndroidError: a native failure code to a status_t.
posixToAndroidError(error) ==
    CASE error = 0 -> NO_ERROR
      [] error = ETIMEDOUT -> TIMED_OUT
      [] error = EINTR -> INTERRUPTED
      [] OTHER -> UNKNOWN_ERROR

\* ------------------------------------------------------------ the heap
\* a block: its allocation state, the value of the sem_t in it, and for the
\* semaphore initialized in it the initial value and the successful returns
\* of Signal (posts) and of Wait/WaitTimeout (waits) since
FreshBlock == [st |-> "unalloc", val |-> 0, init0 |-> 0, posts |-> 0, waits |-> 0]

NoTime == [tv_sec |-> 0, tv_nsec |-> 0]

\* the locals of a call (sem, count, ts) and, kept after WaitTimeout returns as
\* the record of the thread's last WaitTimeout: the semaphore, the time the
\* timeout is due (the clock at entry plus the timeout), the value at entry
\* and whether a Signal completed since
NoLoc == [sem |-> NULL, count |-> 0, ts |-> NoTime, due |-> NoTime,
          val0 |-> -1, sig |-> "none"]

Unallocated == {b \in Blocks : heap[b].st = "unalloc"}

\* malloc(sizeof(sem_t)): the address of a block nobody holds, its content
\* whatever the memory held, or NULL when no memory is available.
MallocResults ==
    (IF Unallocated = {} THEN {}
     ELSE {CHOOSE b \in Unallocated : \A c \in Unallocated : b <= c}) \cup {NULL}

\* a block sem_wait, sem_post, sem_getvalue and sem_timedwait can act on
Usable(p) == p # NULL /\ heap[p].st \in {"alloc", "init"}

Ready(p) == p # NULL /\ heap[p].st = "init"

\* The value sem_init, sem_post and sem_getvalue receive as mSemaphore: the
\* method reads the field again for the call, with no lock, so the build
\* decides whether the value it tested or the field's current value is passed.
\* (sem_wait and sem_timedwait are entered with the value tested at entry.)
HandleRead(t) == {loc[t].sem, mSemaphore}

Entered(t, name) ==
    /\ calls' = [n |-> calls.n + 1,
                 sig |-> calls.sig + (IF name = "Signal" THEN 1 ELSE 0),
                 seq |-> IF scn.kind = "seq" THEN Append(calls.seq, name) ELSE calls.seq]
    /\ op' = [op EXCEPT ![t] = name]

\* a thread leaves its call with status v
Return(t, v) ==
    /\ pc' = [pc EXCEPT ![t] = "idle"]
    /\ ret' = [ret EXCEPT ![t] = v]

Recent(ev, n) == recent' = [ev |-> ev, n |-> n]

OthersIdle(t) == \A u \in Threads \ {t} : pc[u] = "idle"

\* the heap h with a successful return counted for the semaphore in block p
Counted(h, p, field, status) ==
    IF status = NO_ERROR /\ p # NULL
    THEN [h EXCEPT ![p][field] = @ + 1]
    ELSE h

\* A successful sem_post on block p is noted in the record of every thread
\* whose last call is a WaitTimeout on p: "early" when it completes less than
\* the timeout after that call was entered, "late" otherwise.
NoteSignal(l, p) ==
    [u \in Threads |->
        IF op[u] = "WaitTimeout" /\ l[u].sem = p /\ l[u].sig = "none"
        THEN [l[u] EXCEPT !.sig = IF TsLE(l[u].due, clock)
                                  THEN "late" ELSE "early"]
        ELSE l[u]]

\* ------------------------------------------------------- initial states
InitObject ==
    /\ mSemaphore = NULL                       \* Semaphore::Semaphore()
    /\ heap = [b \in Blocks |-> FreshBlock]
    /\ pc = [t \in Threads |-> "idle"]
    /\ loc = [t \in Threads |-> NoLoc]
    /\ ret = [t \in Threads |-> NO_ERROR]
    /\ op = [t \in Threads |-> "none"]
    /\ clock \in {[tv_sec |-> s, tv_nsec |-> 0] : s \in ClockStarts}
    /\ calls = [n |-> 0, sig |-> 0, seq |-> <<>>]
    /\ ticks = 0
    /\ alive = TRUE
    /\ recent = [ev |-> "none", n |-> 0]

Init ==
    /\ InitObject
    /\ scn = [kind |-> "free", K |-> 0, M |-> 0, S |-> 0]

\* ------------------------------------------------------------- Create
\* Create that allocates and stores the handle before it tests the count.
Create_entry_latecheck(t, count) ==
    /\ alive /\ pc[t] = "idle"
    /\ Entered(t, "Create")
    /\ \E p \in MallocResults, g \in Garbage :
         /\ mSemaphore' = p
         /\ heap' = IF p = NULL THEN heap
                    ELSE [heap EXCEPT ![p] = [FreshBlock EXCEPT !.st = "alloc", !.val = g]]
         /\ IF p = NULL \/ count < 0
            THEN /\ Return(t, IF p = NULL THEN NO_MEMORY ELSE BAD_VALUE)
                 /\ loc' = [loc EXCEPT ![t] = NoLoc]
                 /\ IF count < 0 THEN Recent("rejected", 0) ELSE Recent("other", 0)
            ELSE /\ pc' = [pc EXCEPT ![t] = "sem_init"]
                 /\ loc' = [loc EXCEPT ![t] = [NoLoc EXCEPT !.sem = p, !.count = count]]
                 /\ Recent("other", 0)
                 /\ UNCHANGED ret
    /\ UNCHANGED <<clock, ticks, alive, scn>>

\* Lines 72-84: the count test, malloc, the store to mSemaphore, the NULL test.
Create_entry(t, count) ==
    /\ alive /\ pc[t] = "idle"
    /\ Entered(t, "Create")
    /\ IF count < 0
       THEN /\ Return(t, BAD_VALUE)
            /\ loc' = [loc EXCEPT ![t] = NoLoc]
            /\ Recent("rejected", 0)
            /\ UNCHANGED <<mSemaphore, heap>>
       ELSE \E p \in MallocResults, g \in Garbage :
              /\ mSemaphore' = p
              /\ Recent("other", 0)
              /\ IF p = NULL
                 THEN /\ Return(t, NO_MEMORY)
                      /\ loc' = [loc EXCEPT ![t] = NoLoc]
                      /\ UNCHANGED heap
                 ELSE /\ heap' = [heap EXCEPT ![p] = [FreshBlock EXCEPT !.st = "alloc", !.val = g]]
                      /\ pc' = [pc EXCEPT ![t] = "sem_init"]
                      /\ loc' = [loc EXCEPT ![t] = [NoLoc EXCEPT !.sem = p, !.count = count]]
                      /\ UNCHANGED ret
    /\ UNCHANGED <<clock, ticks, alive, scn>>

\* sem_init(sem, 0, value) on block p: the native result and the heap after it
sem_init_rc(p, value) == IF p = NULL \/ value > SEM_VALUE_MAX THEN -1 ELSE 0

sem_init_heap(p, value) ==
    IF sem_init_rc(p, value) = 0
    THEN [heap EXCEPT ![p] = [st |-> "init", val |-> value, init0 |-> value,
                               posts |-> 0, waits |-> 0]]
    ELSE heap

\* Create with the arguments of sem_init swapped: sem_init(mSemaphore, count, 0x00).
Create_sem_init_swapped(t) ==
    /\ pc[t] = "sem_init"
    /\ \E p \in HandleRead(t) :
         LET rc == sem_init_rc(p, 0)
         IN  /\ heap' = sem_init_heap(p, 0)
             /\ Return(t, posixToAndroidError(rc))
             /\ IF rc = 0 /\ OthersIdle(t)
                THEN Recent("created", loc[t].count)
                ELSE Recent("other", 0)
    /\ loc' = [loc EXCEPT ![t] = NoLoc]
    /\ UNCHANGED <<mSemaphore, op, clock, calls, ticks, alive, scn>>

\* Line 87: return posixToAndroidError(sem_init(mSemaphore, 0x00, count));
Create_sem_init(t) ==
    /\ pc[t] = "sem_init"
    /\ \E p \in HandleRead(t) :
         LET rc == sem_init_rc(p, loc[t].count)
         IN  /\ heap' = sem_init_heap(p, loc[t].count)
             /\ Return(t, posixToAndroidError(rc))
             /\ IF rc = 0 /\ OthersIdle(t)
                THEN Recent("created", loc[t].count)
                ELSE Recent("other", 0)
    /\ loc' = [loc EXCEPT ![t] = NoLoc]
    /\ UNCHANGED <<mSemaphore, op, clock, calls, ticks, alive, scn>>

\* --------------------------------------------------------------- Wait
\* Wait that returns NO_ERROR after the NULL test, without calling sem_wait.
Wait_entry_nowait(t) ==
    /\ alive /\ pc[t] = "idle"
    /\ Entered(t, "Wait")
    /\ Recent("other", 0)
    /\ Return(t, IF mSemaphore = NULL THEN BAD_VALUE ELSE NO_ERROR)
    /\ heap' = Counted(heap, mSemaphore, "waits", IF mSemaphore = NULL THEN BAD_VALUE ELSE NO_ERROR)
    /\ loc' = [loc EXCEPT ![t] = NoLoc]
    /\ UNCHANGED <<mSemaphore, clock, ticks, alive, scn>>

\* Lines 102-105: the NULL test of Wait.
Wait_entry(t) ==
    /\ alive /\ pc[t] = "idle"
    /\ Entered(t, "Wait")
    /\ Recent("other", 0)
    /\ IF mSemaphore = NULL
       THEN /\ Return(t, BAD_VALUE)
            /\ loc' = [loc EXCEPT ![t] = NoLoc]
       ELSE /\ pc' = [pc EXCEPT ![t] = "sem_wait"]
            /\ loc' = [loc EXCEPT ![t] = [NoLoc EXCEPT !.sem = mSemaphore]]
            /\ UNCHANGED ret
    /\ UNCHANGED <<mSemaphore, heap, clock, ticks, alive, scn>>

\* sem_wait can take a unit of block p
sem_wait_ready(p) == Usable(p) /\ heap[p].val > 0

\* the heap after a unit is taken from block p
sem_take(p) == [heap EXCEPT ![p].val = @ - 1]

\* Wait with a non-blocking attempt whose failure is ignored: success is
\* returned whether or not a unit was taken.
Wait_sem_wait_trywait(t) ==
    /\ pc[t] = "sem_wait"
    /\ heap' = IF sem_wait_ready(loc[t].sem)
               THEN Counted(sem_take(loc[t].sem), loc[t].sem, "waits", NO_ERROR)
               ELSE Counted(heap, loc[t].sem, "waits", NO_ERROR)
    /\ Return(t, NO_ERROR)
    /\ loc' = [loc EXCEPT ![t] = NoLoc]
    /\ Recent("other", 0)
    /\ UNCHANGED <<mSemaphore, op, clock, calls, ticks, alive, scn>>

\* Line 108: return posixToAndroidError(sem_wait(mSemaphore)); the call stays
\* blocked while the value is 0.
Wait_sem_wait(t) ==
    /\ pc[t] = "sem_wait"
    /\ sem_wait_ready(loc[t].sem)
    /\ heap' = Counted(sem_take(loc[t].sem), loc[t].sem, "waits", posixToAndroidError(0))
    /\ Return(t, posixToAndroidError(0))
    /\ loc' = [loc EXCEPT ![t] = NoLoc]
    /\ Recent("other", 0)
    /\ UNCHANGED <<mSemaphore, op, clock, calls, ticks, alive, scn>>

\* A signal handler runs in a thread blocked in sem_wait or sem_timedwait (a
\* call that finds a unit takes it without blocking): the native call fails
\* with -1 (errno EINTR), the value untouched.
Interrupted(t) ==
    /\ pc[t] \in {"sem_wait", "sem_timedwait"}
    /\ ~sem_wait_ready(loc[t].sem)
    /\ Return(t, posixToAndroidError(-1))
    /\ loc' = [loc EXCEPT ![t] = IF pc[t] = "sem_wait" THEN NoLoc
                                  ELSE [loc[t] EXCEPT !.ts = NoTime]]
    /\ Recent("other", 0)
    /\ UNCHANGED <<mSemaphore, heap, op, clock, calls, ticks, alive, scn>>

\* ------------------------------------------------------------- Signal
\* Lines 126-129: the NULL test of Signal.
Signal_entry(t) ==
    /\ alive /\ pc[t] = "idle"
    /\ Entered(t, "Signal")
    /\ Recent("other", 0)
    /\ IF mSemaphore = NULL
       THEN /\ Return(t, BAD_VALUE)
            /\ loc' = [loc EXCEPT ![t] = NoLoc]
       ELSE /\ pc' = [pc EXCEPT ![t] = "sem_post"]
            /\ loc' = [loc EXCEPT ![t] = [NoLoc EXCEPT !.sem = mSemaphore]]
            /\ UNCHANGED ret
    /\ UNCHANGED <<mSemaphore, heap, clock, ticks, alive, scn>>

\* sem_post with no upper limit on the value.
sem_post_rc_nolimit(p) == IF Usable(p) THEN 0 ELSE -1

\* sem_post on block p: the native result (-1 at SEM_VALUE_MAX and for no
\* semaphore) and the heap after it
sem_post_rc(p) == IF Usable(p) /\ heap[p].val < SEM_VALUE_MAX THEN 0 ELSE -1

\* sem_post that adds two units.
sem_post_heap_twice(p) ==
    IF sem_post_rc(p) = 0 THEN [heap EXCEPT ![p].val = @ + 2] ELSE heap

sem_post_heap(p) ==
    IF sem_post_rc(p) = 0 THEN [heap EXCEPT ![p].val = @ + 1] ELSE heap

\* Signal that returns NO_ERROR without reaching sem_post.
Signal_sem_post_skipped(t) ==
    /\ pc[t] = "sem_post"
    /\ heap' = Counted(heap, loc[t].sem, "posts", NO_ERROR)
    /\ Return(t, NO_ERROR)
    /\ loc' = [loc EXCEPT ![t] = NoLoc]
    /\ Recent("other", 0)
    /\ UNCHANGED <<mSemaphore, op, clock, calls, ticks, alive, scn>>

\* Signal that releases every thread blocked on the semaphore (a broadcast).
Signal_sem_post_broadcast(t) ==
    /\ pc[t] = "sem_post"
    /\ LET p == loc[t].sem
           n == Cardinality({u \in Threads : pc[u] \in {"sem_wait", "sem_timedwait"}
                                              /\ loc[u].sem = p})
       IN  heap' = Counted([heap EXCEPT ![p].val = @ + (IF n > 1 THEN n ELSE 1)],
                           p, "posts", NO_ERROR)
    /\ Return(t, NO_ERROR)
    /\ loc' = [loc EXCEPT ![t] = NoLoc]
    /\ Recent("other", 0)
    /\ UNCHANGED <<mSemaphore, op, clock, calls, ticks, alive, scn>>

\* Signal that drops the result of sem_post and returns NO_ERROR.
Signal_sem_post_unchecked(t) ==
    /\ pc[t] = "sem_post"
    /\ \E p \in HandleRead(t) :
         /\ heap' = Counted(sem_post_heap(p), p, "posts", NO_ERROR)
         /\ Return(t, NO_ERROR)
         /\ loc' = [NoteSignal(loc, p) EXCEPT ![t] = NoLoc]
    /\ Recent("other", 0)
    /\ UNCHANGED <<mSemaphore, op, clock, calls, ticks, alive, scn>>

\* Signal that waits for room below SEM_VALUE_MAX instead of failing.
Signal_sem_post_blocking(t) ==
    /\ pc[t] = "sem_post"
    /\ \E p \in HandleRead(t) :
         /\ sem_post_rc(p) = 0
         /\ heap' = Counted(sem_post_heap(p), p, "posts", NO_ERROR)
         /\ Return(t, NO_ERROR)
         /\ loc' = [NoteSignal(loc, p) EXCEPT ![t] = NoLoc]
    /\ Recent("other", 0)
    /\ UNCHANGED <<mSemaphore, op, clock, calls, ticks, alive, scn>>

\* Line 132: return posixToAndroidError(sem_post(mSemaphore));
Signal_sem_post(t) ==
    /\ pc[t] = "sem_post"
    /\ \E p \in HandleRead(t) :
         LET rc == sem_post_rc(p)
         IN  /\ heap' = Counted(sem_post_heap(p), p, "posts", posixToAndroidError(rc))
             /\ Return(t, posixToAndroidError(rc))
             /\ loc' = IF rc = 0 THEN [NoteSignal(loc, p) EXCEPT ![t] = NoLoc]
                                 ELSE [loc EXCEPT ![t] = NoLoc]
    /\ Recent("other", 0)
    /\ UNCHANGED <<mSemaphore, op, clock, calls, ticks, alive, scn>>

\* -------------------------------------------------------------- Count
\* Lines 147-150: the NULL test of Count.
Count_entry(t) ==
    /\ alive /\ pc[t] = "idle"
    /\ Entered(t, "Count")
    /\ IF mSemaphore = NULL
       THEN /\ Return(t, BAD_VALUE)
            /\ loc' = [loc EXCEPT ![t] = NoLoc]
            /\ IF recent.ev = "rejected"
               THEN Recent("rejected-counted", 0)
               ELSE Recent("other", 0)
       ELSE /\ pc' = [pc EXCEPT ![t] = "sem_getvalue"]
            /\ loc' = [loc EXCEPT ![t] =
                         [NoLoc EXCEPT !.sem = mSemaphore,
                                       !.val0 = IF recent.ev = "created" THEN recent.n ELSE -1]]
            /\ UNCHANGED <<ret, recent>>
    /\ UNCHANGED <<mSemaphore, heap, clock, ticks, alive, scn>>

\* what sem_getvalue(p, &val) leaves in val: the value of the block, or what
\* the uninitialized local held when the call fails
sem_getvalue_vals(p) == IF Usable(p) THEN {heap[p].val} ELSE Garbage

\* Lines 153-155: sem_getvalue(mSemaphore, &val); return val;
Count_sem_getvalue(t) ==
    /\ pc[t] = "sem_getvalue"
    /\ \E p \in HandleRead(t) : \E val \in sem_getvalue_vals(p) :
         /\ Return(t, val)
         /\ IF recent.ev = "created" /\ loc[t].val0 = recent.n
            THEN Recent("created-counted", val)
            ELSE Recent("other", 0)
    /\ loc' = [loc EXCEPT ![t] = NoLoc]
    /\ UNCHANGED <<mSemaphore, heap, op, clock, calls, ticks, alive, scn>>

\* -------------------------------------------------------- WaitTimeout
\* Lines 172-179: the NULL test and the timespec of WaitTimeout.
WaitTimeout_entry(t, timeoutMicroSecs) ==
    /\ alive /\ pc[t] = "idle"
    /\ Entered(t, "WaitTimeout")
    /\ Recent("other", 0)
    /\ IF mSemaphore = NULL
       THEN /\ Return(t, BAD_VALUE)
            /\ loc' = [loc EXCEPT ![t] = NoLoc]
       ELSE /\ pc' = [pc EXCEPT ![t] = "sem_timedwait"]
            /\ loc' = [loc EXCEPT ![t] =
                         [sem |-> mSemaphore, count |-> 0,
                          ts |-> timeSpecOf(timeoutMicroSecs),
                          due |-> TsAddMicros(clock, timeoutMicroSecs),
                          val0 |-> heap[mSemaphore].val, sig |-> "none"]]
            /\ UNCHANGED ret
    /\ UNCHANGED <<mSemaphore, heap, clock, ticks, alive, scn>>

\* sem_timedwait(p, abs_timeout) with no unit to take: errno EINVAL for a
\* timespec that is no time, ETIMEDOUT once CLOCK_REALTIME has reached
\* abs_timeout, and no result (the call stays blocked) before that.
sem_timedwait_errno(abs_timeout) ==
    IF abs_timeout.tv_sec < 0 \/ abs_timeout.tv_nsec < 0 \/ abs_timeout.tv_nsec >= NsecPerSec
    THEN {EINVAL}
    ELSE IF TsLE(abs_timeout, clock) THEN {ETIMEDOUT}
    ELSE {}

\* Line 182: return posixToAndroidError(sem_timedwait(mSemaphore, &timeSpec));
WaitTimeout_sem_timedwait(t) ==
    /\ pc[t] = "sem_timedwait"
    /\ IF sem_wait_ready(loc[t].sem)
       THEN /\ heap' = Counted(sem_take(loc[t].sem), loc[t].sem, "waits", posixToAndroidError(0))
            /\ Return(t, posixToAndroidError(0))
       ELSE /\ sem_timedwait_errno(loc[t].ts) # {}
            /\ Return(t, posixToAndroidError(-1))
            /\ UNCHANGED heap
    /\ loc' = [loc EXCEPT ![t].ts = NoTime]
    /\ Recent("other", 0)
    /\ UNCHANGED <<mSemaphore, op, clock, calls, ticks, alive, scn>>

\* ------------------------------------------------------ the environment
\* CLOCK_REALTIME advances; only a thread blocked in sem_timedwait observes it.
Tick(d) ==
    /\ ticks < MaxTicks
    /\ \E t \in Threads : pc[t] = "sem_timedwait" /\ ~sem_wait_ready(loc[t].sem)
    /\ clock' = TsAddMicros(clock, d)
    /\ ticks' = ticks + 1
    /\ UNCHANGED <<mSemaphore, heap, pc, loc, ret, op, calls, alive, recent, scn>>

\* Lines 48-56: ~Semaphore(), run once no thread is inside a method:
\* sem_destroy and free of the block mSemaphore points to.
Destructor ==
    /\ alive
    /\ \A t \in Threads : pc[t] = "idle"
    /\ alive' = FALSE
    /\ heap' = IF mSemaphore # NULL
               THEN [heap EXCEPT ![mSemaphore].st = "freed"]
               ELSE heap
    /\ UNCHANGED <<mSemaphore, pc, loc, ret, op, clock, calls, ticks, recent, scn>>

\* ------------------------------------------------- the free-running spec
\* Any thread calls any method at any time, MaxCalls calls in all.
CallAllowed == calls.n < MaxCalls

NextOf(T) ==
    \/ \E t \in T, c \in CreateCounts : CallAllowed /\ Create_entry(t, c)
    \/ \E t \in T : Create_sem_init(t)
    \/ \E t \in T : CallAllowed /\ Wait_entry(t)
    \/ \E t \in T : Wait_sem_wait(t)
    \/ \E t \in T : Interrupted(t)
    \/ \E t \in T : CallAllowed /\ Signal_entry(t)
    \/ \E t \in T : Signal_sem_post(t)
    \/ \E t \in T : CallAllowed /\ Count_entry(t)
    \/ \E t \in T : Count_sem_getvalue(t)
    \/ \E t \in T, us \in Timeouts : CallAllowed /\ WaitTimeout_entry(t, us)
    \/ \E t \in T : WaitTimeout_sem_timedwait(t)
    \/ \E d \in TickSteps : Tick(d)
    \/ Destructor

Next == NextOf(Workers)

Spec == Init /\ [][Next]_vars

\* --------------------------------------------------- the sequential spec
\* One thread calls any method, one call after the other.
InitSeq ==
    /\ InitObject
    /\ scn = [kind |-> "seq", K |-> 0, M |-> 0, S |-> 0]

NextSeq == NextOf({Main})

SpecSeq == InitSeq /\ [][NextSeq]_vars

\* ------------------------------------------------------ the K/M scenario
\* Main creates the semaphore with count M; then K threads each call Wait (or
\* WaitTimeout) once while Main calls Signal S times and then Count.
\* No signal handler runs.
KMCounts == (0 .. MaxK - 1) \cup {SEM_VALUE_MAX}

\* the timeout of the waiters that call WaitTimeout
KMTimeouts == {1500000}

InitKM ==
    /\ InitObject
    /\ scn \in [kind : {"km"}, K : 1 .. MaxK, M : KMCounts, S : 0 .. MaxK]

KMWaiters == 1 .. scn.K

\* Main's Create has returned success
KMCreated == op[Main] # "none" /\ pc[Main] # "sem_init" /\ Ready(mSemaphore)

KMCreate == op[Main] = "none" /\ Create_entry(Main, scn.M)

\* the waiters are interchangeable: they enter in the order of their numbers
KMTurn(t) == KMCreated /\ op[t] = "none" /\ \A u \in 1 .. t - 1 : op[u] # "none"

KMWait(t) == KMTurn(t) /\ Wait_entry(t)

KMWaitTimeout(t, us) == KMTurn(t) /\ WaitTimeout_entry(t, us)

KMSignal == KMCreated /\ calls.sig < scn.S /\ Signal_entry(Main)

KMCount ==
    /\ KMCreated /\ calls.sig = scn.S /\ op[Main] # "Count"
    /\ Count_entry(Main)

NextKM ==
    \/ KMCreate
    \/ Create_sem_init(Main)
    \/ \E t \in KMWaiters : KMWait(t)
    \/ \E t \in KMWaiters, us \in KMTimeouts : KMWaitTimeout(t, us)
    \/ \E t \in KMWaiters : Wait_sem_wait(t)
    \/ \E t \in KMWaiters : WaitTimeout_sem_timedwait(t)
    \/ KMSignal
    \/ Signal_sem_post(Main)
    \/ KMCount
    \/ Count_sem_getvalue(Main)
    \/ \E d \in TickSteps : Tick(d)

SpecKM == InitKM /\ [][NextKM]_vars

\* ------------------------------------------------- the timeout scenario
\* Main creates the semaphore with count 0 or 1 and then calls WaitTimeout,
\* one call after the other, with timeouts from the whole range of int.
TSTimeouts ==
    {0, 1, 999, 999999, 1000000, 1000001, 1500000, 2146999999, 2147000000, INT_MAX,
     -1, -999999, -1000000, -1500000, -INT_MAX, INT_MIN}

TSCounts == {0, 1}

InitTS ==
    /\ InitObject
    /\ scn \in [kind : {"ts"}, K : {0}, M : TSCounts, S : {0}]

TSCreate == op[Main] = "none" /\ Create_entry(Main, scn.M)

TSWaitTimeout(us) == KMCreated /\ CallAllowed /\ WaitTimeout_entry(Main, us)

NextTS ==
    \/ TSCreate
    \/ Create_sem_init(Main)
    \/ \E us \in TSTimeouts : TSWaitTimeout(us)
    \/ WaitTimeout_sem_timedwait(Main)
    \/ \E d \in TickSteps : Tick(d)

SpecTS == InitTS /\ [][NextTS]_vars

\* A thread inside sem_wait or sem_timedwait whose semaphore has a unit is
\* scheduled and takes it, unless another thread took the unit first.
FairKM ==
    /\ SpecKM
    /\ \A t \in Waiters : WF_vars(Wait_sem_wait(t))
    /\ \A t \in Waiters : WF_vars(WaitTimeout_sem_timedwait(t))

\* =================================================================
\* Properties
\* =================================================================
InitBlocks == {b \in Blocks : heap[b].st = "init"}

\* the threads whose Wait or WaitTimeout has returned success
Succeeded ==
    {t \in Threads : op[t] \in {"Wait", "WaitTimeout"} /\ pc[t] = "idle" /\ ret[t] = NO_ERROR}

\* the threads inside sem_wait or sem_timedwait
Blocked == {t \in Threads : pc[t] \in {"sem_wait", "sem_timedwait"}}

C2_UnitsAccounted ==
    \A b \in InitBlocks :
        /\ heap[b].val = heap[b].init0 + heap[b].posts - heap[b].waits
        /\ scn.kind = "km" => heap[b].waits = Cardinality(Succeeded)

\* a Wait and a WaitTimeout have both returned success after a Signal
C2_Witness ==
    /\ KMCreated /\ heap[mSemaphore].posts >= 1
    /\ \E t, u \in Succeeded : op[t] = "Wait" /\ op[u] = "WaitTimeout"

\* units signalled or created and not yet taken, by the returns of the calls
Outstanding(b) == heap[b].init0 + heap[b].posts - heap[b].waits

\* C3: no signal is lost: whenever a thread is blocked in Wait/WaitTimeout
\* while a unit handed over by a successful Signal (or by Create) is still
\* outstanding, eventually one more Wait/WaitTimeout returns success; the
\* system never stays in such a state forever.
C3_NoSignalLost ==
    \A n \in 0 .. MaxK :
        (KMCreated /\ Blocked # {} /\ Outstanding(mSemaphore) > 0
            /\ heap[mSemaphore].waits = n)
        ~> (KMCreated /\ heap[mSemaphore].waits > n)

\* a Signal has succeeded while a thread is blocked and its unit is not yet taken
C3_Witness ==
    /\ KMCreated /\ scn.M = 0
    /\ heap[mSemaphore].posts = 1 /\ heap[mSemaphore].waits = 0
    /\ Blocked # {}

\* every waiter of the scenario has called Wait
AllCalledWait == \A t \in KMWaiters : op[t] = "Wait"

\* Main's Signals have all returned and no waiter can take a step
KMSettled ==
    /\ calls.sig = scn.S /\ pc[Main] # "sem_post"
    /\ \A t \in KMWaiters : ~ENABLED Wait_sem_wait(t)

\* C4: for M < K, with K threads each calling Wait() once and K Signal()
\* calls in all, every interleaving ends with exactly K successful Wait()
\* returns (no waiter left blocked, none counted twice) and the count at M.
C4_AllWaitersServed ==
    (KMCreated /\ scn.M < scn.K /\ scn.S = scn.K /\ AllCalledWait) =>
        /\ Cardinality(Succeeded) = heap[mSemaphore].waits
        /\ KMSettled =>
              /\ Succeeded = KMWaiters
              /\ heap[mSemaphore].waits = scn.K
              /\ heap[mSemaphore].val = scn.M

\* the end of a run with K = 2 and M = 1
C4_Witness ==
    /\ KMCreated /\ scn.K = 2 /\ scn.M = 1 /\ scn.S = 2 /\ AllCalledWait
    /\ KMSettled
    /\ Succeeded = KMWaiters /\ heap[mSemaphore].val = 1

C5Case == KMCreated /\ scn.M = 0 /\ scn.S = 1 /\ AllCalledWait

\* C5: after Create(0), with the waiters in Wait() and exactly one Signal(),
\* exactly one Wait() returns success, the others stay blocked, and a Count()
\* after that waiter has returned gives 0.
C5_OneSignalOneWaiter ==
    /\ [](C5Case =>
            /\ Cardinality(Succeeded) <= 1
            /\ KMSettled =>
                  /\ Cardinality(Succeeded) = 1
                  /\ \A t \in KMWaiters \ Succeeded : pc[t] = "sem_wait"
                  /\ heap[mSemaphore].val = 0)
    /\ [][(C5Case /\ Cardinality(Succeeded) = 1
             /\ pc[Main] = "sem_getvalue" /\ pc'[Main] = "idle") => ret'[Main] = 0]_vars

\* two waiters, one Signal: one has returned, one is blocked, Count gave 0
C5_Witness ==
    /\ C5Case /\ scn.K = 2
    /\ Cardinality(Succeeded) = 1
    /\ \E t \in KMWaiters : pc[t] = "sem_wait"
    /\ op[Main] = "Count" /\ pc[Main] = "idle" /\ ret[Main] = 0

\* C6: WaitTimeout(t) on a ready semaphore whose count is 0, with no Signal
\* during the call, returns TimedOut, no earlier than t microseconds after
\* the call was entered, and leaves the count at 0.
C6_TimeoutAfterT ==
    [][\A w \in Threads :
         (pc[w] = "sem_timedwait" /\ pc'[w] = "idle" /\ Ready(loc[w].sem)
            /\ loc[w].val0 = 0 /\ loc[w].sig = "none") =>
               /\ ret'[w] = TIMED_OUT
               /\ TsLE(loc[w].due, clock)
               /\ heap'[loc[w].sem].val = 0]_vars

\* C7: with a single thread in WaitTimeout(t) on a semaphore with count 0, a
\* Signal() that completes less than t microseconds after the call was entered
\* makes that WaitTimeout return success, the unit consumed, the count at 0.
C7_SignalBeforeTimeout ==
    \A w \in Threads :
        (scn.K = 1 /\ op[w] = "WaitTimeout" /\ pc[w] = "idle" /\ Ready(loc[w].sem)
           /\ loc[w].val0 = 0 /\ loc[w].sig = "early" /\ heap[loc[w].sem].posts = 1) =>
              /\ ret[w] = NO_ERROR
              /\ heap[loc[w].sem].val = 0

\* C8: a successful Create(N) followed immediately by Count(), with no other
\* call in between, returns N.
C8_CreateThenCount ==
    [][\A t \in Threads :
         (pc[t] = "sem_getvalue" /\ pc'[t] = "idle"
            /\ recent.ev = "created" /\ loc[t].val0 = recent.n) =>
               ret'[t] = recent.n]_vars

\* Create(SEM_VALUE_MAX) as the first call, Count() as the second
C8_Witness ==
    /\ recent = [ev |-> "created-counted", n |-> SEM_VALUE_MAX]
    /\ calls.n = 2
    /\ op[Main] = "Count" /\ pc[Main] = "idle" /\ ret[Main] = SEM_VALUE_MAX

\* C9: when sem_init fails inside Create, Create returns the translated error
\* and the object is uninitialized afterwards: the handle absent, the block
\* released, so that no later call reaches the native primitive.
C9_FailedInitUnwinds ==
    /\ [][\A t \in Threads :
            (pc[t] = "sem_init" /\ pc'[t] = "idle" /\ ret'[t] # NO_ERROR) =>
               /\ mSemaphore' = NULL
               /\ heap'[loc[t].sem].st \in {"unalloc", "freed"}]_vars
    /\ [](\A t \in Threads :
            pc[t] \in {"sem_wait", "sem_post", "sem_getvalue", "sem_timedwait"} =>
               Ready(loc[t].sem))

\* the object as the constructor leaves it
Fresh == mSemaphore = NULL /\ \A b \in Blocks : heap[b].st = "unalloc"

NegativeCounts == {c \in CreateCounts : c < 0}

\* C10: Create(count) with count < 0 returns BAD_VALUE, allocates and
\* initializes nothing and leaves the handle as it was; on a fresh object a
\* Count() that follows reports BAD_VALUE.
C10_NegativeCountRejected ==
    /\ [][\A t \in Threads, c \in NegativeCounts :
            Create_entry(t, c) =>
               /\ pc'[t] = "idle" /\ ret'[t] = BAD_VALUE
               /\ mSemaphore' = mSemaphore /\ heap' = heap]_vars
    /\ [][\A t \in Threads :
            (recent.ev = "rejected" /\ Fresh /\ Count_entry(t)) =>
               (pc'[t] = "idle" /\ ret'[t] = BAD_VALUE /\ Fresh')]_vars

\* Create(-1) as the first call, Count() as the second
C10_Witness ==
    /\ recent.ev = "rejected-counted" /\ calls.n = 2 /\ Fresh
    /\ op[Main] = "Count" /\ pc[Main] = "idle" /\ ret[Main] = BAD_VALUE

\* no Create has succeeded on the object
NeverCreated == \A b \in Blocks : heap[b].st # "init"

\* C11: Wait(), Signal() and WaitTimeout(t) on an object on which no Create
\* has succeeded return BAD_VALUE in the step that enters them: the caller
\* does not get to the native call, and the handle and the heap are unchanged.
C11_NotReadyRejected ==
    [][\A t \in Threads :
         (NeverCreated /\ (\/ Wait_entry(t)
                           \/ Signal_entry(t)
                           \/ \E us \in Timeouts : WaitTimeout_entry(t, us))) =>
            /\ pc'[t] = "idle" /\ ret'[t] = BAD_VALUE
            /\ mSemaphore' = mSemaphore /\ heap' = heap]_vars

\* C12: a Wait() blocked on a ready semaphore with count 0 that returns without
\* a unit (it was interrupted) returns INTERRUPTED and leaves the count as it
\* was; the thread is back outside the call and may call Wait() again.
C12_InterruptedWait ==
    [][\A t \in Threads :
         (pc[t] = "sem_wait" /\ Ready(loc[t].sem) /\ heap[loc[t].sem].val = 0
            /\ pc'[t] = "idle") =>
               /\ ret'[t] = INTERRUPTED
               /\ heap' = heap]_vars

\* C13: a Signal() that returns on a ready semaphore returns an error and
\* leaves the count unchanged when the count is SEM_VALUE_MAX; at any lower
\* count it returns NO_ERROR and the count is exactly one higher.
C13_SignalAtMaximum ==
    [][\A t \in Threads :
         (pc[t] = "sem_post" /\ pc'[t] = "idle"
            /\ Ready(loc[t].sem) /\ mSemaphore = loc[t].sem) =>
               LET p == loc[t].sem
               IN  IF heap[p].val = SEM_VALUE_MAX
                   THEN ret'[t] # NO_ERROR /\ heap'[p].val = heap[p].val
                   ELSE ret'[t] = NO_ERROR /\ heap'[p].val = heap[p].val + 1]_vars

\* Signal() has returned an error on a semaphore created with SEM_VALUE_MAX
C13_Witness ==
    /\ KMCreated /\ scn.M = SEM_VALUE_MAX
    /\ op[Main] = "Signal" /\ pc[Main] = "idle" /\ ret[Main] # NO_ERROR
    /\ heap[mSemaphore].val = SEM_VALUE_MAX /\ heap[mSemaphore].posts = 0

\* C14: when the object is destructed, sem_destroy is applied only to a block
\* whose sem_init succeeded, every block allocated in the object's life is
\* released by then (none is left allocated), and an object on which no Create
\* succeeded releases nothing.
C14_ReleasedExactlyOnce ==
    [][(alive /\ ~alive') =>
          /\ mSemaphore # NULL => heap[mSemaphore].st = "init"
          /\ \A b \in Blocks : heap'[b].st \in {"unalloc", "freed"}
          /\ NeverCreated => heap' = heap]_vars

\* the one Create of the run was Create(1) and succeeded
RTCreated == Ready(mSemaphore) /\ heap[mSemaphore].init0 = 1

\* Main is inside sem_wait and gets out of it with a unit, without blocking
RTPasses ==
    /\ heap[mSemaphore].val > 0
    /\ ENABLED Wait_sem_wait(Main) /\ ~ENABLED Interrupted(Main)

\* the last two calls entered are Signal() and then Wait()
SignalThenWait ==
    /\ Len(calls.seq) >= 2
    /\ calls.seq[Len(calls.seq) - 1] = "Signal"
    /\ calls.seq[Len(calls.seq)] = "Wait"

\* C15: in a single-threaded run Create(1), Wait(), Signal(), Wait(): the
\* first Wait() does not block and succeeds with the count at 0, the Signal()
\* makes the count 1, the second Wait() does not block and succeeds with the
\* count back at 0; and in any single-threaded run a successful Signal() adds
\* exactly one unit and the Wait() entered right after it on the ready
\* semaphore does not block and takes exactly one unit.
C15_RoundTrip ==
    /\ []((scn.kind = "seq" /\ RTCreated) =>
            /\ calls.seq = <<"Create", "Wait">> =>
                  IF pc[Main] = "sem_wait"
                  THEN heap[mSemaphore].val = 1 /\ RTPasses
                  ELSE ret[Main] = NO_ERROR /\ heap[mSemaphore].val = 0
            /\ calls.seq = <<"Create", "Wait", "Signal">> =>
                  IF pc[Main] = "sem_post"
                  THEN heap[mSemaphore].val = 0
                  ELSE ret[Main] = NO_ERROR /\ heap[mSemaphore].val = 1
            /\ calls.seq = <<"Create", "Wait", "Signal", "Wait">> =>
                  IF pc[Main] = "sem_wait"
                  THEN heap[mSemaphore].val = 1 /\ RTPasses
                  ELSE ret[Main] = NO_ERROR /\ heap[mSemaphore].val = 0)
    /\ [][(scn.kind = "seq" /\ Ready(loc[Main].sem) /\ mSemaphore = loc[Main].sem) =>
            LET p == loc[Main].sem
            IN  /\ (pc[Main] = "sem_post" /\ pc'[Main] = "idle" /\ ret'[Main] = NO_ERROR) =>
                      heap'[p].val = heap[p].val + 1
                /\ (pc[Main] = "sem_wait" /\ SignalThenWait /\ ret[Main] = NO_ERROR) =>
                      /\ RTPasses
                      /\ pc'[Main] = "idle" =>
                            (ret'[Main] = NO_ERROR /\ heap'[p].val = heap[p].val - 1)]_vars

\* the end of the run Create(1), Wait(), Signal(), Wait()
C15_Witness ==
    /\ scn.kind = "seq" /\ RTCreated
    /\ calls.seq = <<"Create", "Wait", "Signal", "Wait">>
    /\ pc[Main] = "idle" /\ ret[Main] = NO_ERROR
    /\ heap[mSemaphore].val = 0 /\ heap[mSemaphore].posts = 1 /\ heap[mSemaphore].waits = 2

\* the threads past the NULL test of Wait, Signal, Count or WaitTimeout: at,
\* or inside, the native call on the handle they read
InNative == {t \in Threads : pc[t] \in {"sem_wait", "sem_post", "sem_getvalue", "sem_timedwait"}}

\* C16: while a thread is inside Create, between malloc and the return of
\* sem_init, no other thread is at a native call on the block that Create
\* allocated and has not yet initialized.
C16_NoPartialHandle ==
    \A c \in Threads, t \in InNative :
        (pc[c] = "sem_init" /\ loc[t].sem = loc[c].sem) =>
            heap[loc[t].sem].st = "init"

\* C17: once a Create has succeeded (the handle points at an initialized
\* semaphore) no step of any operation, a further Create included, gives the
\* handle another value.
C17_HandleSetOnce ==
    [][Ready(mSemaphore) => mSemaphore' = mSemaphore]_vars

\* thread t is inside a call and cannot take its next step
Stuck(t) ==
    /\ pc[t] # "idle"
    /\ ~ENABLED (\/ Create_sem_init(t) \/ Wait_sem_wait(t) \/ Signal_sem_post(t)
                 \/ Count_sem_getvalue(t) \/ WaitTimeout_sem_timedwait(t))

\* C18: a thread inside Signal() or Count() can always take its step and
\* return, whatever the count and however many threads are blocked; the steps
\* of Count() leave the heap (the count), the handle and the set of blocked
\* waiters unchanged; a thread that cannot proceed is in Wait or WaitTimeout.
C18_SignalCountNeverBlock ==
    /\ [](\A t \in Threads :
            /\ pc[t] = "sem_post" => ENABLED Signal_sem_post(t)
            /\ pc[t] = "sem_getvalue" => ENABLED Count_sem_getvalue(t)
            /\ Stuck(t) => op[t] \in {"Wait", "WaitTimeout"})
    /\ [][\A t \in Threads :
            (Count_entry(t) \/ Count_sem_getvalue(t)) =>
               /\ heap' = heap /\ mSemaphore' = mSemaphore
               /\ Blocked' = Blocked]_vars

\* Signal() has returned success while two threads are inside sem_wait or
\* sem_timedwait
C18_Witness ==
    /\ KMCreated /\ scn.M = 0
    /\ Cardinality(Blocked) = 2
    /\ op[Main] = "Signal" /\ pc[Main] = "idle" /\ ret[Main] = NO_ERROR
    /\ heap[mSemaphore].posts = 1

Abs(x) == IF x < 0 THEN -x ELSE x

\* a * b and a - b are within the range of a signed 32-bit integer
MulFits(a, b) == b = 0 \/ Abs(a) <= INT_MAX \div Abs(b)

SubFits(a, b) ==
    IF b >= 0 THEN a >= 0 \/ a >= INT_MIN + b
              ELSE a < 0 \/ a <= INT_MAX + b

\* the timespec of a call in sem_timedwait is no valid deadline
BadTimeSpec(t) == loc[t].ts.tv_sec < 0 \/ loc[t].ts.tv_nsec < 0

\* C19: the timespec WaitTimeout(us) builds has, for us >= 0,
\* tv_sec = us div 1000000 and tv_nsec = (us mod 1000000) * 1000 within
\* 0 .. 999999999, every intermediate value of the computation within the
\* signed 32-bit range; for us < 0 it has tv_sec < 0 or tv_nsec < 0, and the
\* call on a semaphore with count 0 then returns at once with an error, the
\* count unchanged.
C19_TimespecOfTimeout ==
    /\ [][\A us \in TSTimeouts :
            (WaitTimeout_entry(Main, us) /\ pc'[Main] = "sem_timedwait") =>
               LET ts == loc'[Main].ts
                   sec == CDiv(us, Million)
               IN  /\ MulFits(sec, Million)
                   /\ SubFits(us, sec * Million)
                   /\ MulFits(us - sec * Million, Thousand)
                   /\ us >= 0 =>
                         /\ ts.tv_sec = us \div Million
                         /\ ts.tv_nsec = (us % Million) * Thousand
                         /\ ts.tv_nsec >= 0 /\ ts.tv_nsec < NsecPerSec
                   /\ us < 0 => (ts.tv_sec < 0 \/ ts.tv_nsec < 0)]_vars
    /\ [](\A t \in Threads :
            (pc[t] = "sem_timedwait" /\ BadTimeSpec(t)) =>
               ENABLED WaitTimeout_sem_timedwait(t))
    /\ [][\A t \in Threads :
            (pc[t] = "sem_timedwait" /\ pc'[t] = "idle" /\ BadTimeSpec(t)
               /\ Ready(loc[t].sem) /\ heap[loc[t].sem].val = 0) =>
                  (ret'[t] # NO_ERROR /\ heap' = heap)]_vars

\* WaitTimeout(-1) has returned an error on a semaphore with count 0
C19_Witness ==
    /\ scn.kind = "ts" /\ scn.M = 0 /\ KMCreated
    /\ op[Main] = "WaitTimeout" /\ pc[Main] = "idle" /\ ret[Main] # NO_ERROR
    /\ loc[Main].val0 = 0 /\ heap[mSemaphore].val = 0
    /\ ticks = 0 /\ loc[Main].due = TsAddMicros(clock, -1)

====
